---- MODULE Spec2Model ----
(***************************************************************************)
(* Model of thunder/core/proxies.py: the symbolic proxy layer of a tracing *)
(* compiler.  Proxies are objects on a heap; each construction registers   *)
(* a name with the active trace; operators either evaluate natively or     *)
(* dispatch to the active language context.                                *)
(***************************************************************************)
EXTENDS Integers, Sequences, FiniteSets, TLC

VARIABLES
    cur,        \* the active trace (get_tracectx()), NoTrace when none
    names,      \* names[t]: the names registered with trace t
    heap,       \* the proxies constructed so far, in construction order
    langctx,    \* the active language context (get_langctx()), NoCtx when none
    calls,      \* the language-context methods called by the last operation
    call,       \* the last operation invoked and its arguments
    ret         \* what the last operation returned or raised

vars == <<cur, names, heap, langctx, calls, call, ret>>

----------------------------------------------------------------------------
(* Bounds *)

MaxProxies == 2     \* proxies kept on the heap
MaxRank    == 2     \* longest shape given to a TensorProxy
MaxArgs    == 1     \* arguments given to a deferred call
MaxExponent == 3    \* largest exponent a power is computed exactly for

----------------------------------------------------------------------------
(* Native Python numbers.  A number is a type tag and two exact rationals   *)
(* <<numerator, denominator>>; denominator 0 is NaN.  None is a value too.  *)

Rat(n, d) == <<n, d>>
Zero == Rat(0, 1)
NaNRat == Rat(0, 0)

NoneVal == [t |-> "NoneType", re |-> Zero, im |-> Zero]
VBool(b) == [t |-> "bool", re |-> Rat(IF b THEN 1 ELSE 0, 1), im |-> Zero]
VInt(n) == [t |-> "int", re |-> Rat(n, 1), im |-> Zero]
VFloat(n, d) == [t |-> "float", re |-> Rat(n, d), im |-> Zero]
VComplex(r, i) == [t |-> "complex", re |-> Rat(r, 1), im |-> Rat(i, 1)]
NaN == [t |-> "float", re |-> NaNRat, im |-> Zero]
ComplexNaN == [t |-> "complex", re |-> NaNRat, im |-> NaNRat]

IsNumber(v) == v.t \in {"bool", "int", "float", "complex"}

\* isinstance(x, cls) for the number classes: bool is a subclass of int
IsInstance(v, cls) ==
    \/ v.t = cls
    \/ v.t = "bool" /\ cls = "int"

----------------------------------------------------------------------------
(* The trace: thunder.core.trace (get_tracectx, make_name, add_name)        *)

NoTrace == 0
TraceIds == {1, 2}

NoName == "<None>"
GenNames == <<"t0", "t1", "t2", "t3", "t4", "t5", "t6", "t7">>
ExplicitNames == {"t1"}
AllNames == ExplicitNames \cup {GenNames[i] : i \in 1..Len(GenNames)}

CanMakeName(registered) == \E i \in 1..Len(GenNames) : GenNames[i] \notin registered

\* make_name(): the first generated name the trace has not registered yet
make_name(registered) ==
    LET i == CHOOSE k \in 1..Len(GenNames) :
                 /\ GenNames[k] \notin registered
                 /\ \A j \in 1..(k - 1) : GenNames[j] \in registered
    IN  GenNames[i]

\* add_name(name) fails when the name is already registered
add_name_fails(registered, name) == name \in registered

----------------------------------------------------------------------------
(* Exact rational helpers for native arithmetic *)

Abs(n) == IF n < 0 THEN -n ELSE n

RECURSIVE Gcd(_, _)
Gcd(a, b) == IF b = 0 THEN a ELSE Gcd(b, a % b)

\* lowest terms with a positive denominator; NaN stays NaN
Norm(n, d) ==
    IF d = 0 THEN NaNRat
    ELSE LET g == Gcd(Abs(n), Abs(d))
             s == IF d < 0 THEN -1 ELSE 1
         IN  Rat((s * n) \div g, (s * d) \div g)

IsNaNRat(r) == r[2] = 0
RAdd(a, b) == IF IsNaNRat(a) \/ IsNaNRat(b) THEN NaNRat
              ELSE Norm(a[1] * b[2] + b[1] * a[2], a[2] * b[2])
RNeg(a) == IF IsNaNRat(a) THEN NaNRat ELSE Rat(-a[1], a[2])
RSub(a, b) == RAdd(a, RNeg(b))
RMul(a, b) == IF IsNaNRat(a) \/ IsNaNRat(b) THEN NaNRat
              ELSE Norm(a[1] * b[1], a[2] * b[2])
RIsZero(a) == a[2] # 0 /\ a[1] = 0
RDiv(a, b) == IF IsNaNRat(a) \/ IsNaNRat(b) \/ RIsZero(b) THEN NaNRat
              ELSE Norm(a[1] * b[2], a[2] * b[1])
RFloor(a) == a[1] \div a[2]             \* denominator positive: floor division
RCeil(a) == -((-a[1]) \div a[2])
RTrunc(a) == IF a[1] >= 0 THEN RFloor(a) ELSE RCeil(a)
RIsInt(a) == a[2] = 1

----------------------------------------------------------------------------
(* Native arithmetic: what Python computes on numbers *)

\* the outcome of a native operation: an exception, or a value
Ok(v) == [exc |-> "", v |-> v]
Err(e) == [exc |-> e, v |-> NoneVal]
Num(t, re, im) == [t |-> t, re |-> re, im |-> im]

\* the NotImplemented singleton
NotImplementedVal == [t |-> "NotImplementedType", re |-> Zero, im |-> Zero]
\* a result with no exact rational form, kept as the operation and its operands
Sym(op, a, b) == [t |-> "sym", op |-> op, a |-> a, b |-> b]
\* the pair divmod returns
Pair(q, r) == [t |-> "tuple", q |-> q, r |-> r]

TypeRank(v) ==
    CASE v.t = "bool" -> 0 [] v.t = "int" -> 1 [] v.t = "float" -> 2 [] v.t = "complex" -> 3

\* the type of an arithmetic result: the wider operand's, int for bool
Common(a, b) ==
    LET r == IF TypeRank(a) > TypeRank(b) THEN TypeRank(a) ELSE TypeRank(b)
    IN  IF r <= 1 THEN "int" ELSE IF r = 2 THEN "float" ELSE "complex"

IsZeroNum(v) == RIsZero(v.re) /\ RIsZero(v.im)
IsNaNNum(v) == IsNaNRat(v.re) \/ IsNaNRat(v.im)

CMulRe(a, b) == RSub(RMul(a.re, b.re), RMul(a.im, b.im))
CMulIm(a, b) == RAdd(RMul(a.re, b.im), RMul(a.im, b.re))

\* a to the power n, n >= 0, by repeated multiplication
RECURSIVE IntPow(_, _, _)
IntPow(t, a, n) ==
    IF n = 0 THEN Num(t, Rat(1, 1), Zero)
    ELSE LET p == IntPow(t, a, n - 1) IN Num(t, CMulRe(p, a), CMulIm(p, a))

\* a / b for b # 0
CDiv(t, a, b) ==
    LET den == RAdd(RMul(b.re, b.re), RMul(b.im, b.im))
    IN  Num(t, RDiv(RAdd(RMul(a.re, b.re), RMul(a.im, b.im)), den),
               RDiv(RSub(RMul(a.im, b.re), RMul(a.re, b.im)), den))

RECURSIVE TwoTo(_)
TwoTo(n) == IF n = 0 THEN 1 ELSE 2 * TwoTo(n - 1)

\* a op b on two numbers, once a type that implements op for both is found
Arith(op, a, b) ==
    LET ct == Common(a, b)
        ft == IF ct = "int" THEN "float" ELSE ct
    IN  CASE op = "add" -> Ok(Num(ct, RAdd(a.re, b.re), RAdd(a.im, b.im)))
          [] op = "sub" -> Ok(Num(ct, RSub(a.re, b.re), RSub(a.im, b.im)))
          [] op = "mul" -> Ok(Num(ct, CMulRe(a, b), CMulIm(a, b)))
          [] op = "true_divide" ->
                IF IsZeroNum(b) THEN Err("ZeroDivisionError") ELSE Ok(CDiv(ft, a, b))
          [] op \in {"floor_divide", "mod", "divmod"} ->
                IF ct = "complex" THEN Err("TypeError")
                ELSE IF IsZeroNum(b) THEN Err("ZeroDivisionError")
                ELSE IF IsNaNNum(a) \/ IsNaNNum(b) THEN Ok(NaN)
                ELSE LET q == Rat(RFloor(RDiv(a.re, b.re)), 1)
                         r == RSub(a.re, RMul(b.re, q))
                     IN  IF op = "floor_divide" THEN Ok(Num(ct, q, Zero))
                         ELSE IF op = "mod" THEN Ok(Num(ct, r, Zero))
                         ELSE Ok(Pair(Num(ct, q, Zero), Num(ct, r, Zero)))
          [] op = "pow" ->
                IF IsNaNNum(a) \/ IsNaNNum(b) \/ b.t = "complex" \/ ~RIsInt(b.re)
                       \/ Abs(b.re[1]) > MaxExponent
                THEN Ok(Sym("pow", Num(ct, a.re, a.im), Num(ct, b.re, b.im)))
                ELSE IF b.re[1] >= 0 THEN Ok(IntPow(ct, a, b.re[1]))
                ELSE IF IsZeroNum(a) THEN Err("ZeroDivisionError")
                ELSE Ok(CDiv(ft, Num(ft, Rat(1, 1), Zero), IntPow(ft, a, -b.re[1])))
          [] op \in {"lshift", "rshift"} ->
                IF ct # "int" THEN Err("TypeError")
                ELSE IF b.re[1] < 0 THEN Err("ValueError")
                ELSE IF op = "lshift" THEN Ok(VInt(a.re[1] * TwoTo(b.re[1])))
                ELSE Ok(VInt(a.re[1] \div TwoTo(b.re[1])))

\* the binary operators the number types define: float and complex have no
\* shifts, complex no floor division
HasBinary(v, op) ==
    /\ IsNumber(v)
    /\ v.t = "float" => op \notin {"lshift", "rshift"}
    /\ v.t = "complex" => op \notin {"lshift", "rshift", "floor_divide", "mod", "divmod"}

\* whether type(a) implements its operators for an operand b
Handles(a, b) == IsNumber(b) /\ TypeRank(b) <= (IF a.t = "bool" THEN 1 ELSE TypeRank(a))

\* a.__op__(b), called as a method
Dunder(op, a, b) ==
    IF ~HasBinary(a, op) THEN Err("AttributeError")
    ELSE IF ~Handles(a, b) THEN Ok(NotImplementedVal)
    ELSE Arith(op, a, b)

\* a.__rop__(b), called as a method: b op a
RDunder(op, a, b) ==
    IF ~HasBinary(a, op) THEN Err("AttributeError")
    ELSE IF ~Handles(a, b) THEN Ok(NotImplementedVal)
    ELSE Arith(op, b, a)

\* the expression a op b on native values: type(a)'s operator, then the
\* reflected operator of type(b), then TypeError
PyBinary(op, a, b) ==
    LET fwd == IF HasBinary(a, op) THEN Dunder(op, a, b) ELSE Ok(NotImplementedVal)
        rev == IF HasBinary(b, op) THEN RDunder(op, b, a) ELSE Ok(NotImplementedVal)
    IN  IF fwd # Ok(NotImplementedVal) THEN fwd
        ELSE IF rev # Ok(NotImplementedVal) THEN rev
        ELSE Err("TypeError")

\* the unary operators the number types define
HasUnary(v, op) ==
    /\ IsNumber(v)
    /\ v.t = "float" => op # "invert"
    /\ v.t = "complex" => op \in {"abs", "neg", "pos"}

\* round half to even
RRound(a) ==
    LET f == RFloor(RAdd(a, Rat(1, 2)))
    IN  IF RAdd(a, Rat(1, 2)) = Rat(f, 1) /\ f % 2 = 1 THEN f - 1 ELSE f

\* a.__op__(), called as a method
DunderUnary(op, a) ==
    LET it == IF a.t = "bool" THEN "int" ELSE a.t
    IN  IF ~HasUnary(a, op) THEN Err("AttributeError")
        ELSE CASE op = "abs" ->
                    IF a.t = "complex" THEN Ok(Sym("abs", a, NoneVal))
                    ELSE Ok(Num(it, Rat(Abs(a.re[1]), a.re[2]), Zero))
               [] op = "neg" -> Ok(Num(it, RNeg(a.re), RNeg(a.im)))
               [] op = "pos" -> Ok(Num(it, a.re, a.im))
               [] op = "invert" -> Ok(VInt(-a.re[1] - 1))
               [] op = "ceil" -> Ok(VInt(RCeil(a.re)))
               [] op = "floor" -> Ok(VInt(RFloor(a.re)))
               [] op = "trunc" -> Ok(VInt(RTrunc(a.re)))
               [] op = "round" -> Ok(VInt(RRound(a.re)))

\* hash(x) of a native value.  CPython reduces a rational n/d modulo the
\* Mersenne prime 2^61 - 1; the model keeps the algorithm with the Mersenne
\* prime 2^13 - 1, and hash(-1) is -2.
HashModulus == 2^13 - 1
HashImag == 1003
HashOfNone == 4242

RECURSIVE ModPow(_, _)
ModPow(b, e) ==
    IF e = 0 THEN 1
    ELSE LET h == ModPow(b, e \div 2)
         IN  IF e % 2 = 0 THEN (h * h) % HashModulus ELSE (((h * h) % HashModulus) * b) % HashModulus

RHash(r) ==
    IF IsNaNRat(r) THEN 0
    ELSE LET m == Abs(r[1]) % HashModulus
             inv == ModPow(r[2] % HashModulus, HashModulus - 2)
             h == (m * inv) % HashModulus
             sh == IF r[1] < 0 THEN -h ELSE h
         IN  IF sh = -1 THEN -2 ELSE sh

PyHash(v) ==
    IF v = NoneVal THEN HashOfNone
    ELSE IF v.t = "complex"
    THEN LET h == RHash(v.re) + HashImag * RHash(v.im) IN IF h = -1 THEN -2 ELSE h
    ELSE RHash(v.re)

----------------------------------------------------------------------------
(* Proxy objects *)

NoShape == [kind |-> "none", dims |-> <<>>]

\* the attributes an object of class cls starts with, before __init__ sets them
BlankProxy(cls) ==
    [cls |-> cls, name |-> NoName, trace |-> NoTrace,
     value |-> NoneVal, python_type |-> "none", native |-> NoneVal,
     shape |-> NoShape, device |-> "none", dtype |-> [kind |-> "none", base |-> "none", weak |-> FALSE],
     true_dtype |-> [kind |-> "none", base |-> "none", weak |-> FALSE], numel |-> 0, ndim |-> 0]

NoProxy == BlankProxy("none")

\* what a constructor call produces: the exception raised ("" when none),
\* the object built, and the registry of names afterwards
Raised(exc, registry) == [exc |-> exc, obj |-> NoProxy, names |-> registry]
Built(obj, registry) == [exc |-> "", obj |-> obj, names |-> registry]

\* ProxyInit without the registration of a given name
ProxyInit_unregistered(self, name) ==
    IF cur = NoTrace THEN Raised("NoActiveTraceError", names)
    ELSE IF name = NoName
    THEN LET n == make_name(names[cur])
         IN  Built([self EXCEPT !.name = n, !.trace = cur],
                   [names EXCEPT ![cur] = @ \cup {n}])
    ELSE Built([self EXCEPT !.name = name, !.trace = cur], names)

\* Proxy.__init__(self, name): asks the active trace for a name, or
\* registers the one given
ProxyInit(self, name) ==
    IF cur = NoTrace THEN Raised("NoActiveTraceError", names)
    ELSE IF name = NoName
    THEN LET n == make_name(names[cur])
         IN  Built([self EXCEPT !.name = n, !.trace = cur],
                   [names EXCEPT ![cur] = @ \cup {n}])
    ELSE IF add_name_fails(names[cur], name)
    THEN Raised("DuplicateNameError", names)
    ELSE Built([self EXCEPT !.name = name, !.trace = cur],
               [names EXCEPT ![cur] = @ \cup {name}])

\* NumberProxy.__init__(self, name, value, python_type)
NumberProxyInit(self, name, value, python_type) ==
    LET base == ProxyInit(self, name)
    IN  IF base.exc # "" THEN base
        ELSE Built([base.obj EXCEPT !.value = value, !.python_type = python_type],
                   base.names)

\* int.__new__(cls, value), float.__new__(cls, value), complex.__new__(cls, value):
\* the numeral the proxy object itself is, "" when the conversion raises
IntNew(value) ==
    IF value.t = "complex" THEN [exc |-> "TypeError", v |-> NoneVal]
    ELSE IF IsNaNRat(value.re) THEN [exc |-> "ValueError", v |-> NoneVal]
    ELSE [exc |-> "", v |-> VInt(RTrunc(value.re))]

FloatNew(value) ==
    IF value.t = "complex" THEN [exc |-> "TypeError", v |-> NoneVal]
    ELSE [exc |-> "", v |-> [t |-> "float", re |-> value.re, im |-> Zero]]

ComplexNew(value) ==
    [exc |-> "", v |-> [t |-> "complex", re |-> value.re, im |-> value.im]]

UnknownInt == -9999

\* IntegerProxy.__new__: an unknown value becomes the numeral -9999
IntegerProxyNew(value) ==
    IntNew(IF value = NoneVal THEN VInt(UnknownInt) ELSE value)

\* FloatProxy.__new__: an unknown value becomes NaN
FloatProxyNew(value) ==
    FloatNew(IF value = NoneVal THEN NaN ELSE value)

\* ComplexProxy.__new__: an unknown value becomes NaN + NaN j
ComplexProxyNew(value) ==
    ComplexNew(IF value = NoneVal THEN ComplexNaN ELSE value)

\* IntegerProxy(name=name, value=value): __new__ then __init__
IntegerProxy(name, value) ==
    LET new == IntegerProxyNew(value)
        python_type == IF IsInstance(value, "bool") THEN "bool" ELSE "int"
    IN  IF new.exc # "" THEN Raised(new.exc, names)
        ELSE NumberProxyInit([BlankProxy("IntegerProxy") EXCEPT !.native = new.v],
                             name, value, python_type)

\* FloatProxy(name=name, value=value)
FloatProxy(name, value) ==
    LET new == FloatProxyNew(value)
    IN  IF new.exc # "" THEN Raised(new.exc, names)
        ELSE NumberProxyInit([BlankProxy("FloatProxy") EXCEPT !.native = new.v],
                             name, value, "float")

\* ComplexProxy(name=name, value=value)
ComplexProxy(name, value) ==
    LET new == ComplexProxyNew(value)
    IN  IF new.exc # "" THEN Raised(new.exc, names)
        ELSE NumberProxyInit([BlankProxy("ComplexProxy") EXCEPT !.native = new.v],
                             name, value, "complex")

\* Proxy(name)
Proxy(name) == ProxyInit(BlankProxy("Proxy"), name)

NumberClasses == {"IntegerProxy", "FloatProxy", "ComplexProxy"}

\* the constructor of a number proxy class
NumberProxyClass(cls, name, value) ==
    CASE cls = "IntegerProxy" -> IntegerProxy(name, value)
      [] cls = "FloatProxy" -> FloatProxy(name, value)
      [] cls = "ComplexProxy" -> ComplexProxy(name, value)

----------------------------------------------------------------------------
(* Devices and dtypes: thunder.core.devices, thunder.core.dtypes,           *)
(* thunder.core.baseutils                                                   *)

NoDevice == "none"
Devices == {"cpu", "cuda"}

\* check_type(device, devices.Device)
IsDevice(d) == d \in Devices

\* a dtype argument: None, a Python number type, a dtype (strong or weak),
\* or some other object
NoDtype == [kind |-> "none", base |-> "none", weak |-> FALSE]
NumberType(t) == [kind |-> "numbertype", base |-> t, weak |-> FALSE]
StrongDtype(b) == [kind |-> "dtype", base |-> b, weak |-> FALSE]
WeakDtype(b) == [kind |-> "dtype", base |-> b, weak |-> TRUE]
NotADtype == [kind |-> "other", base |-> "str", weak |-> FALSE]

\* dtypes.is_numbertype(x)
is_numbertype(x) == x.kind = "numbertype"

\* dtypes.numbertype_to_dtype(t): the weak dtype of a Python number type
numbertype_to_dtype(x) ==
    WeakDtype(CASE x.base = "bool" -> "bool8"
                [] x.base = "int" -> "int64"
                [] x.base = "float" -> "float32"
                [] x.base = "complex" -> "complex64")

\* check_type(dtype, dtypes.dtype)
IsDtype(x) == x.kind = "dtype"

\* dtypes.to_strong_dtype(d)
to_strong_dtype(d) == [d EXCEPT !.weak = FALSE]

\* a shape argument: None, or a tuple or list of extents
IsNoShape(s) == s.kind = "none"
Tuple(dims) == [kind |-> "tuple", dims |-> dims]
List(dims) == [kind |-> "list", dims |-> dims]

\* baseutils.check_valid_shape(shape): every extent is a non-negative int
check_valid_shape(s) == \A i \in 1..Len(s.dims) : s.dims[i] >= 0

\* the extents added up instead of multiplied
RECURSIVE ReduceAdd(_, _)
ReduceAdd(dims, acc) ==
    IF dims = <<>> THEN acc ELSE ReduceAdd(Tail(dims), acc + Head(dims))

\* reduce(operator.mul, shape, 1)
RECURSIVE ReduceMul(_, _)
ReduceMul(dims, acc) ==
    IF dims = <<>> THEN acc ELSE ReduceMul(Tail(dims), acc * Head(dims))

\* TensorProxy.__init__, the arguments settled: the defaults taken from
\* like, the arguments given overriding them, a number type made a dtype
TensorFields(like, shape, device, dtype) ==
    LET hasLike == like # NoProxy
        shape0 == IF hasLike THEN Tuple(like.shape.dims) ELSE NoShape
        device0 == IF hasLike THEN like.device ELSE NoDevice
        dtype0 == IF hasLike THEN like.true_dtype ELSE NoDtype
        dtype1 == IF dtype # NoDtype THEN dtype ELSE dtype0
    IN  [shape |-> IF ~IsNoShape(shape) THEN shape ELSE shape0,
         device |-> IF device # NoDevice THEN device ELSE device0,
         dtype |-> IF is_numbertype(dtype1) THEN numbertype_to_dtype(dtype1) ELSE dtype1]

\* the validation without the check of the shape
TensorValidate_noshape(f) ==
    IF IsNoShape(f.shape) THEN "TypeError"
    ELSE IF ~IsDevice(f.device) THEN "InvalidDeviceError"
    ELSE IF ~IsDtype(f.dtype) THEN "InvalidDTypeError"
    ELSE ""

\* TensorProxy.__init__, the derived properties computed and the inputs
\* validated: the exception raised, "" when none
TensorValidate(f) ==
    IF IsNoShape(f.shape) THEN "TypeError"
    ELSE IF ~check_valid_shape(f.shape) THEN "InvalidShapeError"
    ELSE IF ~IsDevice(f.device) THEN "InvalidDeviceError"
    ELSE IF ~IsDtype(f.dtype) THEN "InvalidDTypeError"
    ELSE ""

\* the attributes with true_dtype taken after the dtype was made strong
TensorAttrs_strong(self, f) ==
    [self EXCEPT !.shape = f.shape,
                 !.device = f.device,
                 !.numel = ReduceMul(f.shape.dims, 1),
                 !.ndim = Len(f.shape.dims),
                 !.true_dtype = to_strong_dtype(f.dtype),
                 !.dtype = to_strong_dtype(f.dtype)]

\* TensorProxy.__init__, the attributes of the proxy built
TensorAttrs(self, f) ==
    [self EXCEPT !.shape = f.shape,
                 !.device = f.device,
                 !.numel = ReduceMul(f.shape.dims, 1),
                 !.ndim = Len(f.shape.dims),
                 !.true_dtype = f.dtype,
                 !.dtype = to_strong_dtype(f.dtype)]

\* TensorProxy(name, like=, shape=, device=, dtype=); like is a proxy object
\* or NoProxy.  The name is registered before anything is validated.
TensorProxy(name, like, shape, device, dtype) ==
    LET base == ProxyInit(BlankProxy("TensorProxy"), name)
        f == TensorFields(like, shape, device, dtype)
    IN  IF base.exc # "" THEN base
        ELSE IF like # NoProxy /\ like.cls # "TensorProxy"
        THEN Raised("ValueError", base.names)
        ELSE IF TensorValidate(f) # "" THEN Raised(TensorValidate(f), base.names)
        ELSE Built(TensorAttrs(base.obj, f), base.names)

\* p.replace_name(name), as each class defines it
replace_name(p, name) ==
    CASE p.cls = "Proxy" -> Proxy(name)
      [] p.cls = "IntegerProxy" -> IntegerProxy(name, p.value)
      [] p.cls = "FloatProxy" -> FloatProxy(name, p.value)
      [] p.cls = "ComplexProxy" -> ComplexProxy(name, p.value)
      [] p.cls = "TensorProxy" -> TensorProxy(name, p, NoShape, NoDevice, NoDtype)

----------------------------------------------------------------------------
(* Calls and results *)

\* an operand of a call: a proxy on the heap, a native value, or a Variable
\* wrapping a proxy on the heap
NoOperand == [kind |-> "none", ref |-> 0, val |-> NoneVal]
ProxyArg(i) == [kind |-> "proxy", ref |-> i, val |-> NoneVal]
NativeArg(v) == [kind |-> "value", ref |-> 0, val |-> v]
VariableArg(i) == [kind |-> "Variable", ref |-> i, val |-> NoneVal]

NoCall ==
    [fn |-> "none", self |-> 0, name |-> NoName, cls |-> "none",
     value |-> NoneVal, like |-> 0, shape |-> NoShape, device |-> NoDevice,
     dtype |-> NoDtype, other |-> NoOperand, attr |-> "", args |-> <<>>,
     size |-> 0]

NoRet ==
    [tag |-> "none", exc |-> "", kind |-> "none", ref |-> 0, val |-> NoneVal,
     flag |-> FALSE, method |-> "", args |-> <<>>]

Raise(exc) == [NoRet EXCEPT !.tag = "raise", !.exc = exc]
ReturnProxy(i) == [NoRet EXCEPT !.tag = "return", !.kind = "proxy", !.ref = i]
ReturnValue(v) == [NoRet EXCEPT !.tag = "return", !.kind = "value", !.val = v]
ReturnBool(b) == [NoRet EXCEPT !.tag = "return", !.kind = "bool", !.flag = b]

----------------------------------------------------------------------------
(* Initial state: the module is imported, no trace and no language context  *)
(* are active, nothing has been constructed.                                *)

NoCtx == "none"

Init ==
    /\ cur = NoTrace
    /\ names = [t \in TraceIds |-> {}]
    /\ heap = <<>>
    /\ langctx = NoCtx
    /\ calls = <<>>
    /\ call = NoCall
    /\ ret = NoRet

\* a trace becomes the active one
SetTrace(t) ==
    /\ cur' = t
    /\ call' = [NoCall EXCEPT !.fn = "set_tracectx"]
    /\ ret' = NoRet
    /\ calls' = <<>>
    /\ UNCHANGED <<names, heap, langctx>>

\* room for one more proxy and one more name
Room ==
    /\ Len(heap) < MaxProxies
    /\ cur # NoTrace => /\ Cardinality(names[cur]) <= MaxProxies
                        /\ CanMakeName(names[cur])

\* the effect of a constructor call c with outcome res; the call keeps the
\* number of proxies there were before it
Construct(c, res) ==
    /\ call' = [c EXCEPT !.size = Len(heap)]
    /\ names' = res.names
    /\ heap' = IF res.exc = "" THEN Append(heap, res.obj) ELSE heap
    /\ ret' = IF res.exc = "" THEN ReturnProxy(Len(heap) + 1) ELSE Raise(res.exc)
    /\ calls' = <<>>
    /\ UNCHANGED <<cur, langctx>>

\* Proxy(name)
NewProxy(NamesIn) ==
    \E name \in NamesIn :
        /\ Room
        /\ Construct([NoCall EXCEPT !.fn = "Proxy", !.cls = "Proxy", !.name = name],
                     Proxy(name))

\* IntegerProxy(name=, value=), FloatProxy(name=, value=), ComplexProxy(name=, value=)
NewNumberProxy(ClassesIn, NamesIn, ValuesIn) ==
    \E cls \in ClassesIn, name \in NamesIn, value \in ValuesIn :
        /\ Room
        /\ Construct([NoCall EXCEPT !.fn = cls, !.cls = cls, !.name = name,
                                    !.value = value],
                     NumberProxyClass(cls, name, value))

\* TensorProxy(name, like=, shape=, device=, dtype=); like is a proxy on the
\* heap, or 0 for none
NewTensorProxy(NamesIn, ArgsIn) ==
    \E name \in NamesIn, a \in ArgsIn :
        /\ Room
        /\ Construct([NoCall EXCEPT !.fn = "TensorProxy", !.cls = "TensorProxy",
                                    !.name = name, !.like = a.like, !.shape = a.shape,
                                    !.device = a.device, !.dtype = a.dtype],
                     TensorProxy(name, IF a.like = 0 THEN NoProxy ELSE heap[a.like],
                                 a.shape, a.device, a.dtype))

TensorArgs(like, shape, device, dtype) ==
    [like |-> like, shape |-> shape, device |-> device, dtype |-> dtype]

\* heap[i].replace_name(name)
ReplaceName(NamesIn) ==
    \E i \in 1..Len(heap), name \in NamesIn :
        /\ Room
        /\ Construct([NoCall EXCEPT !.fn = "replace_name", !.self = i,
                                    !.cls = heap[i].cls, !.name = name],
                     replace_name(heap[i], name))

----------------------------------------------------------------------------
(* Naming: every kind of proxy, two traces *)

NameArgs == {NoName} \cup ExplicitNames
NamingTensor == {TensorArgs(0, Tuple(<<2, 3>>), "cpu", StrongDtype("float32"))}

Next ==
    \/ \E t \in TraceIds : SetTrace(t)
    \/ NewProxy(NameArgs)
    \/ NewNumberProxy({"IntegerProxy"}, NameArgs, {VInt(3)})
    \/ NewTensorProxy(NameArgs, NamingTensor)
    \/ ReplaceName(NameArgs)

Spec == Init /\ [][Next]_vars

----------------------------------------------------------------------------
(* Variable: a proxy wrapped to be compared and hashed by name *)

\* hash(str): equal strings hash alike, different strings may collide
StrHash(name) ==
    LET k == CHOOSE i \in 1..Len(GenNames) : GenNames[i] = name
    IN  (k * 7) % 3

\* Variable(p)
Variable(p) == [proxy |-> p]

\* the object an operand denotes
Deref(o) == IF o.ref = 0 THEN NoProxy ELSE heap[o.ref]

\* Variable.__eq__ comparing the wrapped proxies instead of their names
Variable_eq_proxies(self, other) ==
    IF other.kind = "Variable"
    THEN self.proxy = Variable(Deref(other)).proxy
    ELSE FALSE

\* Variable.__eq__(self, other)
Variable_eq(self, other) ==
    IF other.kind = "Variable"
    THEN self.proxy.name = Variable(Deref(other)).proxy.name
    ELSE FALSE

\* Variable.__hash__(self)
Variable_hash(self) == StrHash(self.proxy.name)

\* an operation that builds nothing: only its result is kept
Compute(c, r) ==
    /\ call' = c
    /\ ret' = r
    /\ calls' = <<>>
    /\ UNCHANGED <<cur, names, heap, langctx>>

\* Variable(heap[i]) == other
VariableEq(OthersIn) ==
    \E i \in 1..Len(heap), other \in OthersIn :
        Compute([NoCall EXCEPT !.fn = "Variable.__eq__", !.self = i, !.other = other],
                ReturnBool(Variable_eq(Variable(heap[i]), other)))

\* hash(Variable(heap[i]))
VariableHash ==
    \E i \in 1..Len(heap) :
        Compute([NoCall EXCEPT !.fn = "Variable.__hash__", !.self = i],
                ReturnValue(VInt(Variable_hash(Variable(heap[i])))))

\* what a Variable is compared with: Variables, bare proxies, other values
VariableOthers ==
    {VariableArg(j) : j \in 1..Len(heap)} \cup {ProxyArg(j) : j \in 1..Len(heap)}
        \cup {NativeArg(NoneVal), NativeArg(VInt(3))}

VariableNext ==
    \/ \E t \in TraceIds : SetTrace(t)
    \/ NewNumberProxy({"FloatProxy"}, {NoName}, {VFloat(5, 2), VFloat(1, 2)})
    \/ NewTensorProxy({NoName}, NamingTensor)
    \/ VariableEq(VariableOthers)
    \/ VariableHash

VariableSpec == Init /\ [][VariableNext]_vars

----------------------------------------------------------------------------
(* The language context: thunder.core.langctx *)

\* the methods the context's method_lookup finds
LookupMethods == {"transpose", "reshape"}

\* langctx.method_lookup(attr): the method, or None ("")
method_lookup(attr) == IF attr \in LookupMethods THEN attr ELSE ""

\* a call of a context method, and the value the context returns for it
CtxCall(method, args) == [method |-> method, args |-> args]
CtxReturn(method, args) ==
    [NoRet EXCEPT !.tag = "return", !.kind = "ctx", !.method = method, !.args = args]
ReturnPartial(method, args) ==
    [NoRet EXCEPT !.tag = "return", !.kind = "partial", !.method = method, !.args = args]

\* a language context becomes the active one, or none is
SetLangctx(c) ==
    /\ langctx' = c
    /\ call' = [NoCall EXCEPT !.fn = "set_langctx"]
    /\ ret' = NoRet
    /\ calls' = <<>>
    /\ UNCHANGED <<cur, names, heap>>

\* the attributes found on a TensorProxy without __getattr__
TensorAttributes ==
    {"name", "shape", "device", "dtype", "true_dtype", "numel", "ndim"}

\* __getattr__ returning the method found, not bound to the proxy
TensorGetattr_unbound(i, attr) ==
    IF langctx = NoCtx THEN Raise("AttributeError")
    ELSE IF method_lookup(attr) = "" THEN Raise("AttributeError")
    ELSE ReturnPartial(method_lookup(attr), <<>>)

\* TensorProxy.__getattr__(self, attr): the result, before any call of it
TensorGetattr(i, attr) ==
    IF langctx = NoCtx THEN Raise("AttributeError")
    ELSE IF method_lookup(attr) = "" THEN Raise("AttributeError")
    ELSE ReturnPartial(method_lookup(attr), <<ProxyArg(i)>>)

\* heap[i].attr for an attribute the TensorProxy does not define
GetAttr(AttrsIn) ==
    \E i \in 1..Len(heap), attr \in AttrsIn \ TensorAttributes :
        /\ heap[i].cls = "TensorProxy"
        /\ Compute([NoCall EXCEPT !.fn = "__getattr__", !.self = i, !.attr = attr],
                   TensorGetattr(i, attr))

\* partial(method, self)(*args): the deferred call returned by __getattr__ is
\* invoked
InvokeDeferred(ArgsIn) ==
    \E args \in ArgsIn :
        /\ ret.tag = "return" /\ ret.kind = "partial"
        /\ call' = [call EXCEPT !.fn = "partial.__call__", !.args = args]
        /\ calls' = <<CtxCall(ret.method, ret.args \o args)>>
        /\ ret' = CtxReturn(ret.method, ret.args \o args)
        /\ UNCHANGED <<cur, names, heap, langctx>>

\* TensorProxy.__pos__(self)
TensorPos(i) == ReturnProxy(i)

----------------------------------------------------------------------------
(* Tensor proxies: one trace, shapes (), (2,), (2, 3), ... as tuples and    *)
(* lists, with defects in the shape, the device and the dtype               *)

ShapeDims(r) == [i \in 1..r |-> i + 1]
ValidShapes ==
    {Tuple(ShapeDims(r)) : r \in 0..MaxRank} \cup {List(ShapeDims(MaxRank))}
NegativeShapes ==
    {Tuple([ShapeDims(r) EXCEPT ![r] = -1]) : r \in 1..MaxRank}
        \cup {List([ShapeDims(MaxRank) EXCEPT ![1] = -1])}
GoodDtypes == {NumberType("float"), WeakDtype("float32"), StrongDtype("float32")}
BadDevice == "tpu:0"

\* constructions from explicit arguments, every one valid
ExplicitTensors ==
    {TensorArgs(0, sh, "cpu", dt) : sh \in ValidShapes, dt \in GoodDtypes}

\* constructions with a missing or an invalid argument
DefectTensors ==
    {TensorArgs(0, sh, "cpu", StrongDtype("float32")) : sh \in NegativeShapes \cup {NoShape}}
        \cup {TensorArgs(0, Tuple(<<2>>), d, StrongDtype("float32")) : d \in {BadDevice, NoDevice}}
        \cup {TensorArgs(0, Tuple(<<2>>), "cpu", dt) : dt \in {NotADtype, NoDtype}}
        \cup {TensorArgs(0, Tuple(<<-1>>), BadDevice, NotADtype),
              TensorArgs(0, Tuple(<<2>>), BadDevice, NotADtype)}

\* constructions like a tensor proxy of the heap, with at most one override
LikeTensors ==
    {TensorArgs(i, sh, NoDevice, NoDtype) :
        i \in 1..Len(heap), sh \in ValidShapes \cup NegativeShapes \cup {NoShape}}
        \cup {TensorArgs(i, NoShape, BadDevice, NoDtype) : i \in 1..Len(heap)}
        \cup {TensorArgs(i, NoShape, NoDevice, dt) :
                i \in 1..Len(heap), dt \in GoodDtypes \cup {NotADtype}}

AttrArgs == {"transpose", "reshape", "bogus", "shape"}
OperandSeqs(S) == UNION {[1..n -> S] : n \in 0..MaxArgs}
DeferredArgs == OperandSeqs({NativeArg(VInt(1))} \cup {ProxyArg(i) : i \in 1..Len(heap)})

TensorNext ==
    \/ SetTrace(1)
    \/ NewTensorProxy({NoName}, ExplicitTensors)
    \/ NewTensorProxy({NoName}, DefectTensors)
    \/ NewTensorProxy({NoName}, LikeTensors)
    \/ ReplaceName(NameArgs)

TensorSpec == Init /\ [][TensorNext]_vars

\* attribute access on tensor proxies, with and without a language context
AttrNext ==
    \/ SetTrace(1)
    \/ \E c \in {NoCtx, "mock"} : SetLangctx(c)
    \/ NewTensorProxy(NameArgs, NamingTensor)
    \/ GetAttr(AttrArgs)
    \/ InvokeDeferred(DeferredArgs)

AttrSpec == Init /\ [][AttrNext]_vars

----------------------------------------------------------------------------
(* Number proxies: operators, unary plus and hash *)

UnaryOps == {"abs", "ceil", "floor", "invert", "neg", "round", "trunc"}
BinaryOps ==
    {"add", "sub", "mul", "true_divide", "floor_divide", "mod", "divmod", "pow",
     "lshift", "rshift"}

IsNumberProxy(o) == o.kind = "proxy" /\ heap[o.ref].cls \in NumberClasses

\* pyval(x): the concrete value of a number proxy, a number itself;
\* check_type rejects anything else
pyval(x) ==
    IF IsNumberProxy(x) THEN Ok(heap[x.ref].value)
    ELSE IF x.kind = "value" /\ IsNumber(x.val) THEN Ok(x.val)
    ELSE Err("ValueError")

\* what a method of a proxy does: the value it returns or the exception it
\* raises, and the calls of context methods it makes
Native(res) ==
    [ret |-> IF res.exc # "" THEN Raise(res.exc) ELSE ReturnValue(res.v), calls |-> <<>>]
Dispatch(method, args) ==
    [ret |-> CtxReturn(method, args), calls |-> <<CtxCall(method, args)>>]

\* NumberProxy.__abs__, __ceil__, __floor__, __invert__, __neg__, __round__,
\* __trunc__ (self)
NumberProxyUnary(op, i) ==
    IF langctx = NoCtx THEN Native(DunderUnary(op, pyval(ProxyArg(i)).v))
    ELSE Dispatch(op, <<ProxyArg(i)>>)

\* NumberProxy.__add__, __sub__, ... (self, other): + and * are written as
\* expressions on the values, the others call the value's method
NumberProxyBinary(op, i, other) ==
    IF langctx = NoCtx
    THEN LET a == pyval(ProxyArg(i))
             b == pyval(other)
         IN  IF b.exc # "" THEN Native(b)
             ELSE IF op \in {"add", "mul"} THEN Native(PyBinary(op, a.v, b.v))
             ELSE IF a.v = NoneVal THEN Native(Err("AttributeError"))
             ELSE Native(Dunder(op, a.v, b.v))
    ELSE Dispatch(op, <<ProxyArg(i), other>>)

\* NumberProxy.__radd__, __rsub__, ... (self, other)
NumberProxyReflected(op, i, other) ==
    IF langctx = NoCtx
    THEN LET a == pyval(ProxyArg(i))
             b == pyval(other)
         IN  IF b.exc # "" THEN Native(b)
             ELSE IF op \in {"add", "mul"} THEN Native(PyBinary(op, b.v, a.v))
             ELSE IF a.v = NoneVal THEN Native(Err("AttributeError"))
             ELSE Native(RDunder(op, a.v, b.v))
    ELSE Dispatch(op, <<other, ProxyArg(i)>>)

\* the class of an operand, and the number an operand is to the methods of
\* int, float and complex: a number proxy is the numeral made by __new__
TypeOf(o) == IF o.kind = "proxy" THEN heap[o.ref].cls ELSE o.val.t
AsNumber(o) == IF o.kind = "proxy" THEN heap[o.ref].native ELSE o.val

\* type(rhs) is a proper subclass of type(lhs) that overrides the reflected
\* method: its reflected method is tried first
ReflectedFirst(lhs, rhs) ==
    /\ lhs.kind = "value" /\ rhs.kind = "proxy"
    /\ \/ lhs.val.t = "int" /\ heap[rhs.ref].cls = "IntegerProxy"
       \/ lhs.val.t = "float" /\ heap[rhs.ref].cls = "FloatProxy"
       \/ lhs.val.t = "complex" /\ heap[rhs.ref].cls = "ComplexProxy"

\* TensorProxy.__add__, __sub__, ... (self, other) and TensorProxy.__radd__,
\* __rsub__, ... (self, other): the method of the context, which with no
\* context active is an attribute of None
TensorProxyBinary(op, i, other) ==
    IF langctx = NoCtx THEN Native(Err("AttributeError"))
    ELSE Dispatch(op, <<ProxyArg(i), other>>)

TensorProxyReflected(op, i, other) ==
    IF langctx = NoCtx THEN Native(Err("AttributeError"))
    ELSE Dispatch(op, <<other, ProxyArg(i)>>)

IsTensorProxy(o) == o.kind = "proxy" /\ heap[o.ref].cls = "TensorProxy"

\* type(lhs).__op__(lhs, rhs) and type(rhs).__rop__(rhs, lhs)
Forward(op, lhs, rhs) ==
    IF IsNumberProxy(lhs) THEN NumberProxyBinary(op, lhs.ref, rhs)
    ELSE IF IsTensorProxy(lhs) THEN TensorProxyBinary(op, lhs.ref, rhs)
    ELSE IF HasBinary(AsNumber(lhs), op) THEN Native(Dunder(op, AsNumber(lhs), AsNumber(rhs)))
    ELSE Native(Ok(NotImplementedVal))

Reflected(op, lhs, rhs) ==
    IF IsNumberProxy(rhs) THEN NumberProxyReflected(op, rhs.ref, lhs)
    ELSE IF IsTensorProxy(rhs) THEN TensorProxyReflected(op, rhs.ref, lhs)
    ELSE IF HasBinary(AsNumber(rhs), op) THEN Native(RDunder(op, AsNumber(rhs), AsNumber(lhs)))
    ELSE Native(Ok(NotImplementedVal))

\* the expression lhs op rhs: Python's binary operator protocol
BinaryExpr(op, lhs, rhs) ==
    LET unhandled == Native(Ok(NotImplementedVal))
        fwd == Forward(op, lhs, rhs)
        rev == Reflected(op, lhs, rhs)
    IN  IF ReflectedFirst(lhs, rhs)
        THEN IF rev # unhandled THEN rev
             ELSE IF fwd # unhandled THEN fwd
             ELSE Native(Err("TypeError"))
        ELSE IF fwd # unhandled THEN fwd
        ELSE IF TypeOf(lhs) # TypeOf(rhs) /\ rev # unhandled THEN rev
        ELSE Native(Err("TypeError"))

\* NumberProxy.__pos__(self): the name langctx is never assigned in the
\* method nor in the module, so its first line raises NameError
NumberPos(i) == Native(Err("NameError"))

\* __hash__ hashing the name, as Variable does
NumberProxyHash_name(p) == StrHash(p.name)

\* NumberProxy.__hash__(self)
NumberProxyHash(p) == PyHash(p.value)

\* an operation that only computes: the heap and the registry stay
Operate(c, res) ==
    /\ call' = c
    /\ ret' = res.ret
    /\ calls' = res.calls
    /\ UNCHANGED <<cur, names, heap, langctx>>

\* abs(p), math.ceil(p), math.floor(p), ~p, -p, round(p), math.trunc(p)
UnaryOp(OpsIn) ==
    \E i \in 1..Len(heap), op \in OpsIn :
        /\ heap[i].cls \in NumberClasses
        /\ Operate([NoCall EXCEPT !.fn = "unary", !.attr = op, !.self = i,
                                  !.args = <<ProxyArg(i)>>],
                   NumberProxyUnary(op, i))

\* lhs op rhs with a number proxy on the left
BinaryOp(OpsIn, OthersIn) ==
    \E i \in 1..Len(heap), op \in OpsIn, other \in OthersIn :
        /\ heap[i].cls \in NumberClasses
        /\ other.kind = "proxy" => other.ref \in 1..Len(heap)
        /\ Operate([NoCall EXCEPT !.fn = "binary", !.attr = op, !.self = i,
                                  !.other = other, !.args = <<ProxyArg(i), other>>],
                   BinaryExpr(op, ProxyArg(i), other))

\* lhs op rhs with a native number on the left and a proxy on the right
ReflectedOp(OpsIn, OthersIn) ==
    \E i \in 1..Len(heap), op \in OpsIn, other \in OthersIn :
        /\ heap[i].cls \in NumberClasses \cup {"TensorProxy"}
        /\ other.kind = "value"
        /\ Operate([NoCall EXCEPT !.fn = "reflected", !.attr = op, !.self = i,
                                  !.other = other, !.args = <<other, ProxyArg(i)>>],
                   BinaryExpr(op, other, ProxyArg(i)))

\* +p
Pos ==
    \E i \in 1..Len(heap) :
        Operate([NoCall EXCEPT !.fn = "__pos__", !.self = i, !.args = <<ProxyArg(i)>>],
                IF heap[i].cls = "TensorProxy"
                THEN [ret |-> TensorPos(i), calls |-> <<>>]
                ELSE NumberPos(i))

\* hash(p)
Hash ==
    \E i \in 1..Len(heap) :
        /\ heap[i].cls \in NumberClasses
        /\ Operate([NoCall EXCEPT !.fn = "__hash__", !.self = i],
                   Native(Ok(VInt(NumberProxyHash(heap[i])))))

\* the kind of number a proxy class is: the type it converts to trivially
Kinds == {"int", "float", "complex"}
KindOf(cls) ==
    CASE cls = "IntegerProxy" -> "int"
      [] cls = "FloatProxy" -> "float"
      [] cls = "ComplexProxy" -> "complex"

\* __int__, __float__, __complex__ of the number proxy classes:
\* IntegerProxy.__int__ and FloatProxy.__float__ return self; all the others
\* raise an object that is no exception (NotImplemented, or the proxy itself
\* in ComplexProxy.__complex__), which is a TypeError
NumberProxyConvert(kind, i) ==
    IF heap[i].cls = "IntegerProxy" /\ kind = "int" THEN ReturnProxy(i)
    ELSE IF heap[i].cls = "FloatProxy" /\ kind = "float" THEN ReturnProxy(i)
    ELSE Raise("TypeError")

\* p.__int__(), p.__float__(), p.__complex__()
Convert ==
    \E i \in 1..Len(heap), kind \in Kinds :
        /\ heap[i].cls \in NumberClasses
        /\ Operate([NoCall EXCEPT !.fn = "convert", !.attr = kind, !.self = i,
                                  !.args = <<ProxyArg(i)>>],
                   [ret |-> NumberProxyConvert(kind, i), calls |-> <<>>])

\* native operands, and the operands of an operator: those and the proxies
NativeOperands == {NativeArg(VInt(2)), NativeArg(VComplex(1, 2))}
Operands == NativeOperands \cup {ProxyArg(j) : j \in 1..MaxProxies}

\* Operators with a number proxy on the left: values of every kind, among
\* them an int held by a FloatProxy, as numberproxy(float, 3) builds
NumberNext ==
    \/ SetTrace(1)
    \/ \E c \in {NoCtx, "mock"} : SetLangctx(c)
    \/ NewNumberProxy({"IntegerProxy"}, {NoName}, {VInt(3)})
    \/ NewNumberProxy({"FloatProxy"}, {NoName}, {VFloat(5, 2), VInt(3)})
    \/ NewNumberProxy({"ComplexProxy"}, {NoName}, {VComplex(1, 2)})
    \/ UnaryOp(UnaryOps)
    \/ BinaryOp(BinaryOps, Operands)

NumberSpec == Init /\ [][NumberNext]_vars

\* Operators with a native number on the left
ReflectedNext ==
    \/ SetTrace(1)
    \/ \E c \in {NoCtx, "mock"} : SetLangctx(c)
    \/ NewNumberProxy({"IntegerProxy"}, {NoName}, {VInt(3), NoneVal})
    \/ NewNumberProxy({"FloatProxy"}, {NoName}, {VFloat(5, 2)})
    \/ NewTensorProxy({NoName}, NamingTensor)
    \/ ReflectedOp(BinaryOps, NativeOperands \cup {NativeArg(VFloat(5, 2))})

ReflectedSpec == Init /\ [][ReflectedNext]_vars

\* Unary plus, hash and replace_name on proxies of every class
IdentityNext ==
    \/ SetTrace(1)
    \/ \E c \in {NoCtx, "mock"} : SetLangctx(c)
    \/ NewNumberProxy({"IntegerProxy"}, NameArgs, {VInt(3), VBool(TRUE), NoneVal})
    \/ NewNumberProxy({"FloatProxy"}, {NoName}, {VFloat(5, 2)})
    \/ NewNumberProxy({"ComplexProxy"}, {NoName}, {VComplex(1, 2)})
    \/ NewTensorProxy({NoName}, NamingTensor)
    \/ Pos
    \/ Hash
    \/ Convert
    \/ ReplaceName(NameArgs)

IdentitySpec == Init /\ [][IdentityNext]_vars

----------------------------------------------------------------------------
(* The factories: proxy(x, name=) and numberproxy(cls, value) *)

\* values that are no int, float or complex: another Number (a Fraction), a
\* string, an instance of the context's tensor class
OtherVal(t) == [t |-> t, re |-> Zero, im |-> Zero]
FractionVal(n, d) == [t |-> "Fraction", re |-> Rat(n, d), im |-> Zero]
\* a proxy held as the value of another proxy
ProxyVal(i) == [t |-> "proxy", re |-> Rat(i, 1), im |-> Zero]
\* the name argument as an argument of a context method
NameVal(name) == IF name = NoName THEN NoneVal ELSE [t |-> "str", name |-> name]

\* contexts that define tensor_cls (thunder.core.langctx)
TensorContexts == {"mock"}
Contexts == {NoCtx, "core", "mock"}

\* isinstance(x, Number); isinstance(x, complex), (x, float), (x, int): a
\* number proxy is an instance of the numeric type its class inherits from
IsNumberInstance(x) ==
    IF x.kind = "proxy" THEN heap[x.ref].cls \in NumberClasses
    ELSE x.val.t \in {"bool", "int", "float", "complex", "Fraction"}
IsInstanceOf(x, kind) ==
    IF x.kind = "proxy"
    THEN heap[x.ref].cls \in NumberClasses /\ KindOf(heap[x.ref].cls) = kind
    ELSE IsInstance(x.val, kind)

\* cls(name=name, value=x) for the x given to proxy(): for a proxy x the
\* numeral is x's own, and complex.__new__ calls x.__complex__()
ProxyOf(cls, x, name) ==
    IF x.kind = "proxy"
    THEN IF NumberProxyConvert(KindOf(cls), x.ref).tag = "raise"
         THEN Raised(NumberProxyConvert(KindOf(cls), x.ref).exc, names)
         ELSE NumberProxyInit([BlankProxy(cls) EXCEPT !.native = heap[x.ref].native],
                              name, ProxyVal(x.ref), KindOf(cls))
    ELSE NumberProxyClass(cls, name, x.val)

\* proxy(x, name=name): what it does (ask the context, construct, raise or
\* pass x through) and the outcome of the construction
proxy(x, name) ==
    IF langctx \in TensorContexts /\ x.kind = "value" /\ x.val.t = "Tensor"
    THEN [tag |-> "tensorproxy", res |-> Raised("", names)]
    ELSE IF IsNumberInstance(x)
    THEN IF IsInstanceOf(x, "complex")
         THEN [tag |-> "construct", res |-> ProxyOf("ComplexProxy", x, name)]
         ELSE IF IsInstanceOf(x, "float")
         THEN [tag |-> "construct", res |-> ProxyOf("FloatProxy", x, name)]
         ELSE IF IsInstanceOf(x, "int")
         THEN [tag |-> "construct", res |-> ProxyOf("IntegerProxy", x, name)]
         ELSE [tag |-> "raise", res |-> Raised("NotImplementedError", names)]
    ELSE [tag |-> "return", res |-> Raised("", names)]

\* _cls_to_number_proxy_map: float, int and bool
NumberProxyMap(cls) ==
    CASE cls = "float" -> "FloatProxy"
      [] cls = "int" -> "IntegerProxy"
      [] cls = "bool" -> "IntegerProxy"
      [] OTHER -> ""

\* numberproxy(cls, value)
numberproxy(cls, value) ==
    IF NumberProxyMap(cls) = "" THEN Raised("KeyError", names)
    ELSE NumberProxyClass(NumberProxyMap(cls), NoName, value)

\* proxy(x, name=name)
ProxyCall(XsIn, NamesIn) ==
    \E x \in XsIn, name \in NamesIn :
        LET c == [NoCall EXCEPT !.fn = "proxy", !.name = name, !.other = x,
                                !.size = Len(heap)]
            out == proxy(x, name)
        IN  /\ Room
            /\ x.kind = "proxy" => x.ref \in 1..Len(heap)
            /\ IF out.tag \in {"construct", "raise"}
               THEN Construct(c, out.res)
               ELSE /\ call' = c
                    /\ ret' = IF out.tag = "tensorproxy"
                              THEN CtxReturn("tensorproxy", <<NativeArg(NameVal(name)), x>>)
                              ELSE IF x.kind = "proxy" THEN ReturnProxy(x.ref)
                              ELSE ReturnValue(x.val)
                    /\ calls' = IF out.tag = "tensorproxy"
                                THEN <<CtxCall("tensorproxy", <<NativeArg(NameVal(name)), x>>)>>
                                ELSE <<>>
                    /\ UNCHANGED <<cur, names, heap, langctx>>

\* numberproxy(cls, value)
NumberProxyCall(KindsIn, ValuesIn) ==
    \E cls \in KindsIn, value \in ValuesIn :
        /\ Room
        /\ Construct([NoCall EXCEPT !.fn = "numberproxy", !.cls = cls, !.value = value],
                     numberproxy(cls, value))

\* what proxy() is given: numbers of every kind, a Fraction, a string, None,
\* a tensor of the context, and proxies
ProxyInputs ==
    {NativeArg(v) : v \in {VInt(3), VBool(TRUE), VFloat(5, 2), VComplex(1, 2),
                           FractionVal(1, 2), OtherVal("str"), NoneVal,
                           OtherVal("Tensor")}}
        \cup {ProxyArg(j) : j \in 1..MaxProxies}

\* the kinds and values numberproxy() is given
NumberKinds == {"bool", "int", "float", "complex"}
NumberInputs == {VInt(3), VBool(TRUE), VFloat(5, 2), VComplex(1, 2), NoneVal}

FactoryNext ==
    \/ SetTrace(1)
    \/ \E c \in Contexts : SetLangctx(c)
    \/ ProxyCall(ProxyInputs, NameArgs)
    \/ NumberProxyCall(NumberKinds, NumberInputs)
    \/ NewNumberProxy(NumberClasses, {NoName}, NumberInputs)
    \/ ReplaceName(ExplicitNames)
    \/ NewTensorProxy({NoName}, NamingTensor)

FactorySpec == Init /\ [][FactoryNext]_vars

----------------------------------------------------------------------------
(* Equality: == is not defined by the proxy classes, it is the comparison   *)
(* of int, float and complex on the numeral the object was made with        *)

\* int.__eq__, float.__eq__, complex.__eq__: equal as numbers, NaN equal to
\* nothing
NumEq(x, y) ==
    /\ ~IsNaNNum(x) /\ ~IsNaNNum(y)
    /\ x.re = y.re /\ x.im = y.im

\* p == other for a number proxy p
NumberProxyEq(i, other) == NumEq(heap[i].native, AsNumber(other))

\* hash(o) for a number proxy or a native number
HashOf(o) ==
    IF o.kind = "proxy" THEN NumberProxyHash(heap[o.ref]) ELSE PyHash(o.val)

\* p == other
Eq(OthersIn) ==
    \E i \in 1..Len(heap), other \in OthersIn :
        /\ heap[i].cls \in NumberClasses
        /\ other.kind = "proxy" => other.ref \in 1..Len(heap)
        /\ Operate([NoCall EXCEPT !.fn = "__eq__", !.self = i, !.other = other,
                                  !.args = <<ProxyArg(i), other>>],
                   [ret |-> ReturnBool(NumberProxyEq(i, other)), calls |-> <<>>])

EqOperands ==
    {NativeArg(v) : v \in {VInt(3), VInt(UnknownInt), VFloat(5, 2), VComplex(1, 2)}}
        \cup {ProxyArg(j) : j \in 1..MaxProxies}

EqNext ==
    \/ SetTrace(1)
    \/ NewNumberProxy({"IntegerProxy"}, {NoName}, {VInt(3), NoneVal})
    \/ NewNumberProxy({"FloatProxy"}, {NoName}, {VFloat(5, 2), VInt(3), NoneVal})
    \/ NewNumberProxy({"ComplexProxy"}, {NoName}, {VComplex(1, 2)})
    \/ Eq(EqOperands)
    \/ Hash

EqSpec == Init /\ [][EqNext]_vars

----------------------------------------------------------------------------
(* Failed constructions: tensor proxies with given and generated names,     *)
(* valid and invalid, in either trace                                       *)

RetryTensors ==
    NamingTensor
        \cup {TensorArgs(0, Tuple(<<2, -1>>), "cpu", StrongDtype("float32")),
              TensorArgs(0, Tuple(<<2>>), BadDevice, StrongDtype("float32")),
              TensorArgs(0, Tuple(<<2>>), "cpu", NotADtype)}

RetryNext ==
    \/ \E t \in TraceIds : SetTrace(t)
    \/ NewTensorProxy(NameArgs, RetryTensors)

RetrySpec == Init /\ [][RetryNext]_vars

----------------------------------------------------------------------------
(* Claims *)

SameTrace(i, j) == heap[i].trace = heap[j].trace

\* C1: within one trace no two constructed proxies have the same name,
\* whatever mix of generated names, given names and replace_name calls
\* built them.
C1_UniqueNames ==
    \A i, j \in 1..Len(heap) :
        (i # j /\ SameTrace(i, j)) => heap[i].name # heap[j].name

\* two proxies of one trace, the second made by a successful replace_name
\* with a given name, the first with a generated name
C1_Witness ==
    /\ Len(heap) >= 2
    /\ SameTrace(1, Len(heap))
    /\ heap[1].name = GenNames[1]
    /\ call.fn = "replace_name" /\ call.name \in ExplicitNames
    /\ ret = ReturnProxy(Len(heap))

\* C2: two Variables are equal exactly when their proxies' names are equal,
\* whatever the proxies' other attributes; equal Variables hash alike; a
\* Variable is never equal to anything that is not a Variable, the bare
\* proxy it wraps included.
C2_VariableEquality ==
    /\ call.fn = "Variable.__eq__" =>
         ret = ReturnBool(/\ call.other.kind = "Variable"
                          /\ heap[call.self].name = heap[call.other.ref].name)
    /\ \A i, j \in 1..Len(heap) :
         Variable_eq(Variable(heap[i]), VariableArg(j)) =>
             Variable_hash(Variable(heap[i])) = Variable_hash(Variable(heap[j]))
    /\ \A i \in 1..Len(heap) : ~Variable_eq(Variable(heap[i]), ProxyArg(i))

\* two proxies with one name (from two traces) that differ in class or
\* value were wrapped and compared equal
C2_Witness ==
    /\ call.fn = "Variable.__eq__" /\ call.other.kind = "Variable"
    /\ call.self # call.other.ref
    /\ \/ heap[call.self].value # heap[call.other.ref].value
       \/ heap[call.self].cls # heap[call.other.ref].cls
    /\ ret = ReturnBool(TRUE)

Returned == ret.tag = "return"
IsTensor(p) == p.cls = "TensorProxy"
Tensors == {i \in 1..Len(heap) : IsTensor(heap[i])}

\* the attributes of a proxy other than its name (and the trace that owns it)
OtherAttributes(p) ==
    <<p.cls, p.value, p.python_type, p.shape, p.device, p.dtype, p.true_dtype,
      p.numel, p.ndim>>

\* C3: replace_name(newName) returns a new proxy of the same class, named
\* newName, whose every other attribute equals the original's.
C3_ReplaceNamePreserves ==
    (call.fn = "replace_name" /\ Returned) =>
        /\ ret.ref # call.self
        /\ call.name # NoName => heap[ret.ref].name = call.name
        /\ OtherAttributes(heap[ret.ref]) = OtherAttributes(heap[call.self])

\* the extents multiplied, from the last to the first
RECURSIVE Product(_)
Product(dims) ==
    IF Len(dims) = 0 THEN 1
    ELSE dims[Len(dims)] * Product(SubSeq(dims, 1, Len(dims) - 1))

\* C4: every TensorProxy has numel equal to the product of its extents (1
\* for the empty shape) and ndim equal to the number of its extents, the
\* shape given or taken from like.
C4_NumelNdim ==
    \A i \in Tensors :
        /\ heap[i].numel = Product(heap[i].shape.dims)
        /\ heap[i].ndim = Len(heap[i].shape.dims)

\* a tensor built like a tensor of the empty shape, and given the shape
\* (2, 3) of its own
C4_Witness ==
    /\ call.fn = "TensorProxy" /\ call.like # 0 /\ Returned
    /\ heap[call.like].numel = 1 /\ heap[call.like].ndim = 0
    /\ heap[ret.ref].shape.dims = <<2, 3>>
    /\ heap[ret.ref].numel = 6 /\ heap[ret.ref].ndim = 2

\* a weak numeric dtype: a Python number type, or a weak dtype
IsWeakArg(d) == d.kind = "numbertype" \/ (d.kind = "dtype" /\ d.weak)

\* C5: a TensorProxy built with a weak numeric dtype has the strong dtype of
\* the same element type as dtype and the weak form as true_dtype; every
\* TensorProxy has a strong dtype, the strong form of its true_dtype.
C5_DtypeNormalized ==
    /\ \A i \in Tensors :
         /\ heap[i].dtype.kind = "dtype" /\ ~heap[i].dtype.weak
         /\ heap[i].true_dtype.kind = "dtype"
         /\ heap[i].dtype.base = heap[i].true_dtype.base
    /\ (call.fn = "TensorProxy" /\ Returned /\ IsWeakArg(call.dtype)) =>
         /\ heap[ret.ref].true_dtype.weak
         /\ call.dtype.kind = "dtype" => heap[ret.ref].true_dtype = call.dtype
         /\ call.dtype.kind = "numbertype" =>
              heap[ret.ref].true_dtype = numbertype_to_dtype(call.dtype)

\* a tensor built with the number type float: dtype float32, true_dtype the
\* weak float32
C5_Witness ==
    /\ call.fn = "TensorProxy" /\ Returned /\ call.dtype = NumberType("float")
    /\ heap[ret.ref].dtype = StrongDtype("float32")
    /\ heap[ret.ref].true_dtype = WeakDtype("float32")

\* the defects of the arguments of a TensorProxy construction
NegativeExtent(sh) == \E k \in 1..Len(sh.dims) : sh.dims[k] < 0
UnknownDevice(d) == d # NoDevice /\ d \notin Devices
UnknownDtype(d) == d.kind = "other"
\* the call got as far as registering its name
NameRegistered == ret.exc \notin {"NoActiveTraceError", "DuplicateNameError"}

\* C7: a TensorProxy construction with a negative extent, an unrecognized
\* device or an unrecognized dtype fails with the error of that defect (the
\* shape is validated first, then the device, then the dtype) and constructs
\* nothing.
C7_ValidationErrors ==
    /\ (call.fn = "TensorProxy" /\ NameRegistered) =>
         /\ NegativeExtent(call.shape) => ret = Raise("InvalidShapeError")
         /\ (UnknownDevice(call.device) /\ ~NegativeExtent(call.shape)
                /\ (call.like # 0 \/ ~IsNoShape(call.shape)))
              => ret = Raise("InvalidDeviceError")
         /\ (UnknownDtype(call.dtype) /\ ~NegativeExtent(call.shape)
                /\ (call.like # 0 \/ ~IsNoShape(call.shape))
                /\ (IsDevice(call.device) \/ (call.device = NoDevice /\ call.like # 0)))
              => ret = Raise("InvalidDTypeError")
         /\ ret.tag = "raise" => Len(heap) = call.size
    /\ \A i \in Tensors :
         /\ ~NegativeExtent(heap[i].shape)
         /\ IsDevice(heap[i].device)
         /\ IsDtype(heap[i].dtype)

\* a construction like a valid tensor, overriding the shape with a negative
\* extent, failed as an invalid shape
C7_Witness ==
    /\ call.fn = "TensorProxy" /\ call.like # 0 /\ NegativeExtent(call.shape)
    /\ ret = Raise("InvalidShapeError")
    /\ Len(heap) = call.size

\* C8: an attribute a TensorProxy does not define: when the active context's
\* method_lookup does not find it the access fails as an unknown attribute;
\* when it does, the access returns a deferred call that, called with
\* arguments, calls the method found with the proxy first and then the
\* arguments.
C8_GetAttr ==
    /\ (call.fn = "__getattr__" /\ langctx # NoCtx) =>
         IF call.attr \in LookupMethods
         THEN ret = ReturnPartial(call.attr, <<ProxyArg(call.self)>>)
         ELSE ret = Raise("AttributeError")
    /\ call.fn = "partial.__call__" =>
         /\ calls = <<CtxCall(call.attr, <<ProxyArg(call.self)>> \o call.args)>>
         /\ ret = CtxReturn(call.attr, <<ProxyArg(call.self)>> \o call.args)

\* a deferred call was called with an argument
C8_Witness ==
    /\ call.fn = "partial.__call__" /\ Len(call.args) = 1
    /\ Len(calls) = 1 /\ Len(calls[1].args) = 2

\* an operand whose concrete value is known, and that value
KnownOperand(o) ==
    \/ IsNumberProxy(o) /\ heap[o.ref].value # NoneVal
    \/ o.kind = "value" /\ IsNumber(o.val)
ConcreteValue(o) == IF o.kind = "proxy" THEN heap[o.ref].value ELSE o.val

\* what Python evaluates the operation to on the concrete values
NativeResult(op, args) ==
    IF Len(args) = 1
    THEN IF HasUnary(ConcreteValue(args[1]), op)
         THEN DunderUnary(op, ConcreteValue(args[1]))
         ELSE Err("TypeError")
    ELSE PyBinary(op, ConcreteValue(args[1]), ConcreteValue(args[2]))

\* C6: a unary, binary or shift operator applied to a number proxy: with no
\* language context and known concrete values it returns the native result
\* of the operation on the concrete values (and fails when the native
\* operation fails); with a language context it calls the context's method
\* of that operation with the operands themselves and returns what the context
\* returns.
C6_OperatorDispatch ==
    /\ (/\ call.fn \in {"unary", "binary"}
        /\ langctx = NoCtx
        /\ \A k \in 1..Len(call.args) : KnownOperand(call.args[k])) =>
         LET native == NativeResult(call.attr, call.args)
         IN  IF native.exc = "" THEN ret = ReturnValue(native.v) ELSE ret.tag = "raise"
    /\ (call.fn \in {"unary", "binary"} /\ langctx # NoCtx) =>
         /\ calls = <<CtxCall(call.attr, call.args)>>
         /\ ret = CtxReturn(call.attr, call.args)

\* C9: the hash of a number proxy with a known value is the hash of the
\* value, whatever the proxy's name: proxies with one value hash alike.
C9_HashOfValue ==
    /\ (call.fn = "__hash__" /\ heap[call.self].value # NoneVal) =>
         ret = ReturnValue(VInt(PyHash(heap[call.self].value)))
    /\ \A i, j \in 1..Len(heap) :
         (/\ heap[i].cls \in NumberClasses /\ heap[j].cls \in NumberClasses
          /\ heap[i].value # NoneVal /\ heap[i].value = heap[j].value) =>
             NumberProxyHash(heap[i]) = NumberProxyHash(heap[j])

\* an IntegerProxy of value 3 hashed to 3, with another proxy of value 3 and
\* a different name on the heap
C9_Witness ==
    /\ call.fn = "__hash__" /\ ret = ReturnValue(VInt(3))
    /\ heap[call.self].cls = "IntegerProxy"
    /\ \E j \in 1..Len(heap) :
         /\ heap[j].value = heap[call.self].value
         /\ heap[j].name # heap[call.self].name

\* C10: unary plus on a proxy returns without error and calls no method of
\* the language context; under an active context it returns the proxy
\* itself.
C10_UnaryPlusIdentity ==
    call.fn = "__pos__" =>
        /\ ret.tag = "return"
        /\ calls = <<>>
        /\ langctx # NoCtx => ret = ReturnProxy(call.self)

\* C11: converting a number proxy to its own kind (IntegerProxy to int,
\* FloatProxy to float, ComplexProxy to complex) returns without error;
\* converting it to any other kind fails.
C11_Conversions ==
    call.fn = "convert" =>
        IF call.attr = KindOf(heap[call.self].cls)
        THEN ret.tag = "return"
        ELSE ret.tag = "raise"

\* C12: an operator applied with a proxy as the right operand and another
\* value as the left: with a language context it calls the context's method
\* of that operation with the operands in the order (other, self) and
\* returns what the context returns; with no context and a number proxy of
\* known value it returns the native result of other op self.
C12_ReflectedSwapped ==
    call.fn = "reflected" =>
        /\ langctx # NoCtx =>
              /\ calls = <<CtxCall(call.attr, <<call.other, ProxyArg(call.self)>>)>>
              /\ ret = CtxReturn(call.attr, <<call.other, ProxyArg(call.self)>>)
        /\ (langctx = NoCtx /\ KnownOperand(ProxyArg(call.self))) =>
              LET native == NativeResult(call.attr, call.args)
              IN  IF native.exc = "" THEN ret = ReturnValue(native.v)
                  ELSE ret.tag = "raise"

\* the proxy class of a native number
ClassForNumber(v) ==
    CASE v.t = "complex" -> "ComplexProxy"
      [] v.t = "float" -> "FloatProxy"
      [] v.t \in {"int", "bool"} -> "IntegerProxy"

\* C13: proxy(x, name) returns, for a native complex, float or int/bool x, a
\* new ComplexProxy, FloatProxy or IntegerProxy with value x and the given
\* name; for an instance of the context's tensor class, what the context's
\* tensorproxy(name, x) returns; for any other x, x itself, and then it
\* constructs nothing and registers no name.
C13_ProxyFactory ==
    [][call'.fn = "proxy" =>
        LET x == call'.other
            name == call'.name
            number == x.kind = "value" /\ x.val.t \in {"bool", "int", "float", "complex"}
            tensor == /\ x.kind = "value" /\ x.val.t = "Tensor"
                      /\ langctx \in TensorContexts
        IN  /\ (number /\ ret'.exc \notin {"NoActiveTraceError", "DuplicateNameError"}) =>
                  /\ ret' = ReturnProxy(Len(heap) + 1)
                  /\ Len(heap') = Len(heap) + 1
                  /\ heap'[Len(heap')].cls = ClassForNumber(x.val)
                  /\ heap'[Len(heap')].value = x.val
                  /\ name # NoName => heap'[Len(heap')].name = name
            /\ tensor =>
                  /\ calls' = <<CtxCall("tensorproxy", <<NativeArg(NameVal(name)), x>>)>>
                  /\ ret' = CtxReturn("tensorproxy", <<NativeArg(NameVal(name)), x>>)
            /\ (~number /\ ~tensor) =>
                  /\ ret' = IF x.kind = "proxy" THEN ReturnProxy(x.ref)
                            ELSE ReturnValue(x.val)
                  /\ heap' = heap
                  /\ names' = names
    ]_vars

\* the proxy variant of a kind
VariantOf(kind) ==
    CASE kind \in {"bool", "int"} -> "IntegerProxy"
      [] kind = "float" -> "FloatProxy"
      [] kind = "complex" -> "ComplexProxy"

\* a value of the kind: a boolean for bool, an integer for int, a real
\* number for float, any number for complex
Representable(kind, v) ==
    CASE kind = "bool" -> v.t = "bool"
      [] kind = "int" -> v.t \in {"bool", "int"}
      [] kind = "float" -> v.t \in {"bool", "int", "float"}
      [] kind = "complex" -> v.t \in {"bool", "int", "float", "complex"}
      [] OTHER -> FALSE

\* C14: numberproxy(kind, value), for each kind of bool, int, float and
\* complex and a value of that kind or an unknown value, inside a trace,
\* returns a new proxy of the variant matching the kind, carrying the value,
\* whose recorded kind is the requested one.
C14_NumberProxyFactory ==
    (/\ call.fn = "numberproxy"
     /\ call.value = NoneVal \/ Representable(call.cls, call.value)
     /\ ret.exc # "NoActiveTraceError") =>
        /\ ret = ReturnProxy(call.size + 1)
        /\ Len(heap) = call.size + 1
        /\ heap[Len(heap)].cls = VariantOf(call.cls)
        /\ heap[Len(heap)].value = call.value
        /\ heap[Len(heap)].python_type = call.cls

IsNumberProxyAt(i) == heap[i].cls \in NumberClasses

\* C15: the value of every number proxy built by IntegerProxy, FloatProxy,
\* ComplexProxy, numberproxy, proxy or replace_name is, when present, a value
\* of the proxy's kind (a proxy given as the value counts as a value of its
\* own kind).
C15_ValueRepresentable ==
    \A i \in 1..Len(heap) :
        (IsNumberProxyAt(i) /\ heap[i].value # NoneVal) =>
            LET v == heap[i].value
            IN  IF v.t = "proxy"
                THEN Representable(heap[i].python_type, heap[v.re[1]].native)
                ELSE Representable(heap[i].python_type, v)

UnknownOperand(o) == IsNumberProxy(o) /\ heap[o.ref].value = NoneVal

\* C16: with no language context active, a unary, binary or shift operator
\* with a number proxy of unknown value among its operands raises; it
\* returns nothing, in particular no numeral computed from -9999 or NaN.
C16_UnknownValueFails ==
    (/\ call.fn \in {"unary", "binary", "reflected"}
     /\ langctx = NoCtx
     /\ \E k \in 1..Len(call.args) : UnknownOperand(call.args[k])) =>
        ret.tag = "raise"

ValidationErrors == {"InvalidShapeError", "InvalidDeviceError", "InvalidDTypeError"}

\* C17: a TensorProxy construction that fails validation of its shape,
\* device or dtype leaves the registered names of the trace as they were
\* before the call.
C17_FailedConstructionUnregisters ==
    [][(call'.fn = "TensorProxy" /\ ret'.exc \in ValidationErrors)
          => names' = names]_vars

\* C18: when a number proxy compares equal to a number proxy or a native
\* number, the two have the same hash.
C18_HashConsistentWithEq ==
    (call.fn = "__eq__" /\ ret = ReturnBool(TRUE)) =>
        HashOf(ProxyArg(call.self)) = HashOf(call.other)

============================================================================
